---- MODULE Spec2Model ----
(***************************************************************************)
(* Model of the timeline editor of src/src/components/Timeline.tsx (the    *)
(* free-form Timeline: split, trim, move, boundary drag, merge, delete,    *)
(* copy/paste, duplicate, lock/mute/speed, markers, undo/redo).            *)
(*                                                                         *)
(* Times are integers in milliseconds (0.1 s = 100), pixels are integers.  *)
(*                                                                         *)
(* The component is a React function component: every handler reads the    *)
(* state of the render that created it.  A toolbar handler is the one of   *)
(* the current render.  The window keydown listener is re-registered only  *)
(* when playhead, selectedSplits, splits, markers or duration change      *)
(* (Timeline.tsx:805), so between two such changes it keeps the history,   *)
(* historyIndex, clipboard and rippleMode of an older render: kbd.  The    *)
(* pointermove/pointerup listeners of a drag are those of the render of    *)
(* the pointer-down: drag.c.                                               *)
(***************************************************************************)
EXTENDS Integers, Sequences, FiniteSets, TLC

VARIABLES
    duration,        \* useState duration (0 until loadedmetadata)
    playhead,        \* useState playhead
    splits,          \* useState splits: sequence of Split records
    markers,         \* useState markers: sequence of Marker records
    selectedSplits,  \* useState selectedSplits: set of ids
    snapEnabled,     \* useState snapEnabled
    rippleMode,      \* useState rippleMode
    history,         \* useState history: sequence of HistoryState
    historyIndex,    \* useState historyIndex (0-based, -1 when empty)
    clipboard,       \* useState clipboard
    drag,            \* the listeners of the drag in progress, with their closure
    kbd,             \* the stale part of the closure of the keydown listener
    nextId,          \* number of ids generateId() has handed out
    lastOp,          \* the handler that ran last, and whether it passed its guards
    before,          \* (splits, markers) before the last commit, undo or redo that acted
    nsteps,          \* number of events handled so far
    input,           \* the pixels of the pointer event handled last (0: none)
    call,            \* a call of snapTime on its own: arguments and result
    thumbs,          \* the thumbnail timers and the video's seeks are followed
    timers,          \* pending setTimeout(() => generateThumbnails(), delay) calls
    onseeked,        \* the segment id held by the video's onseeked handler (0: none)
    seeking,         \* the video has a seek in progress
    seekTime,        \* the currentTime the video was last set to
    loopRegion,      \* useState loopRegion (NoLoop: null)
    isLooping,       \* useState isLooping
    numParts         \* useState numParts of the equal-parts timeline

vars == <<duration, playhead, splits, markers, selectedSplits, snapEnabled,
          rippleMode, history, historyIndex, clipboard, drag, kbd, nextId,
          lastOp, before, nsteps, input, call, thumbs, timers, onseeked, seeking,
          seekTime, loopRegion, isLooping, numParts>>

----------------------------------------------------------------------------
(* Program constants *)

MIN_PART == 100
SNAP_THRESHOLD == 80
MERGE_TOLERANCE == 1
HISTORY_CAP == 50
BASE_WIDTH == 1200

(* Bounds of the model *)

MaxSteps == 6
MaxIds == 7

(* Inputs *)

Durations == {1200}
PlayheadTimes == {0, 600, 1150}
DragPx == {-300, 600}
ClickPx == {520, 620}
Speeds == {200}

----------------------------------------------------------------------------
(* Helpers *)

Max(a, b) == IF a >= b THEN a ELSE b
Min(a, b) == IF a <= b THEN a ELSE b
Abs(a) == IF a >= 0 THEN a ELSE -a

MapSeq(s, F(_)) == [i \in 1..Len(s) |-> F(s[i])]

RECURSIVE FlatStartEnd(_)
FlatStartEnd(s) ==
    IF s = <<>> THEN <<>>
    ELSE <<s[1].start, s[1].end>> \o FlatStartEnd(Tail(s))

Ids(s) == {s[i].id : i \in 1..Len(s)}

(* Array.prototype.sort((a, b) => a.start - b.start): stable *)
InsertByStart(s, x) ==
    LET k == Cardinality({i \in 1..Len(s) : s[i].start <= x.start})
    IN SubSeq(s, 1, k) \o <<x>> \o SubSeq(s, k + 1, Len(s))

RECURSIVE SortByStart(_)
SortByStart(s) ==
    IF s = <<>> THEN <<>>
    ELSE InsertByStart(SortByStart(SubSeq(s, 1, Len(s) - 1)), s[Len(s)])

(* timelineWidth at the default zoom level (ZOOM_LEVELS[2] = 1) *)
timelineWidth == BASE_WIDTH

pxToTime(px, d) ==
    LET total == Max(1000, d)
    IN Max(0, Min(total, (px * total) \div timelineWidth))

timeToPx(t, d) ==
    LET total == Max(1000, d)
    IN (t * timelineWidth) \div total

snapTime(time, otherTimes, enabled) ==
    IF ~enabled THEN time
    ELSE LET hits == {i \in 1..Len(otherTimes) : Abs(time - otherTimes[i]) < SNAP_THRESHOLD}
         IN IF hits = {} THEN time
            ELSE otherTimes[CHOOSE i \in hits : \A j \in hits : i <= j]

----------------------------------------------------------------------------
(* Renders and closures *)

NoDrag == [kind |-> "none"]
NoCall == [fn |-> "none"]
NoLoop == [set |-> FALSE]

Now ==
    [duration |-> duration, playhead |-> playhead, splits |-> splits,
     markers |-> markers, selectedSplits |-> selectedSplits,
     snapEnabled |-> snapEnabled, rippleMode |-> rippleMode,
     history |-> history, historyIndex |-> historyIndex,
     clipboard |-> clipboard]

(* the render the keydown listener was created in *)
KeyRender ==
    [Now EXCEPT !.history = kbd.history, !.historyIndex = kbd.historyIndex,
                !.clipboard = kbd.clipboard, !.rippleMode = kbd.rippleMode]

Idle == drag.kind = "none"
Loaded == duration > 0
(* the effect of Timeline.tsx:175-225 runs before the next event *)
EffectPending == Loaded /\ Len(splits) = 0
CanStep == nsteps < MaxSteps /\ Loaded /\ ~EffectPending

Get(u, k, d) == IF k \in DOMAIN u THEN u[k] ELSE d
NoUpdate == [k \in {} |-> 0]

Op(name, acted) == [name |-> name, acted |-> acted]

CommitNames == {"load", "split", "delete", "rippleDelete", "paste", "duplicate",
                "merge", "toggleLock", "toggleMute", "changeSpeed", "addMarker",
                "moveUp", "trimUp", "handleUp"}

(* The state setters a handler called: u maps the names of the state it set *)
(* to the new values.  The keydown effect runs again when one of its        *)
(* dependencies was set.                                                    *)
Apply(name, acted, u, newDrag) ==
    /\ duration' = Get(u, "duration", duration)
    /\ playhead' = Get(u, "playhead", playhead)
    /\ splits' = Get(u, "splits", splits)
    /\ markers' = Get(u, "markers", markers)
    /\ selectedSplits' = Get(u, "selectedSplits", selectedSplits)
    /\ snapEnabled' = Get(u, "snapEnabled", snapEnabled)
    /\ rippleMode' = Get(u, "rippleMode", rippleMode)
    /\ history' = Get(u, "history", history)
    /\ historyIndex' = Get(u, "historyIndex", historyIndex)
    /\ clipboard' = Get(u, "clipboard", clipboard)
    /\ nextId' = Get(u, "nextId", nextId)
    /\ drag' = newDrag
    /\ kbd' = IF \/ {"splits", "markers", "selectedSplits"} \cap DOMAIN u # {}
                 \/ playhead' # playhead
                 \/ duration' # duration
              THEN [history |-> history', historyIndex |-> historyIndex',
                    clipboard |-> clipboard', rippleMode |-> rippleMode']
              ELSE kbd
    /\ lastOp' = Op(name, acted)
    /\ before' = IF acted /\ name \in CommitNames \cup {"undo", "redo"}
                 THEN [splits |-> splits, markers |-> markers]
                 ELSE before
    /\ nsteps' = nsteps + 1
    /\ input' = Get(u, "input", 0)
    /\ call' = call
    /\ thumbs' = thumbs
    /\ timers' = IF ~thumbs THEN timers
                 ELSE IF "timer" \in DOMAIN u THEN Append(timers, u["timer"])
                 ELSE Get(u, "timers", timers)
    /\ onseeked' = IF thumbs THEN Get(u, "onseeked", onseeked) ELSE onseeked
    /\ seeking' = IF thumbs THEN Get(u, "seeking", seeking) ELSE seeking
    /\ seekTime' = IF thumbs THEN Get(u, "seekTime", seekTime) ELSE seekTime
    /\ loopRegion' = Get(u, "loopRegion", loopRegion)
    /\ isLooping' = Get(u, "isLooping", isLooping)
    /\ numParts' = Get(u, "numParts", numParts)

(* setTimeout(() => generateThumbnails(), delay) in a handler of render c:  *)
(* the callback of that render, with its splits and duration (145-172)     *)
Timer(c, delay) == [splits |-> c.splits, duration |-> c.duration, delay |-> delay]

(* videoRef.current.currentTime = t *)
Seek(t) == ("seekTime" :> t) @@ ("seeking" :> TRUE)

----------------------------------------------------------------------------
(* History *)

saveToHistory(c) ==
    LET newState == [splits |-> c.splits, markers |-> c.markers]
        newHistory == Append(SubSeq(c.history, 1, c.historyIndex + 1), newState)
        capped == IF Len(newHistory) > HISTORY_CAP THEN Tail(newHistory) ELSE newHistory
    IN ("history" :> capped) @@ ("historyIndex" :> Len(capped) - 1)

undo(c) ==
    IF c.historyIndex > 0
    THEN LET prevState == c.history[c.historyIndex]
         IN ("splits" :> prevState.splits) @@ ("markers" :> prevState.markers)
            @@ ("historyIndex" :> c.historyIndex - 1)
    ELSE NoUpdate

redo(c) ==
    IF c.historyIndex < Len(c.history) - 1
    THEN LET nextState == c.history[c.historyIndex + 2]
         IN ("splits" :> nextState.splits) @@ ("markers" :> nextState.markers)
            @@ ("historyIndex" :> c.historyIndex + 1)
    ELSE NoUpdate

----------------------------------------------------------------------------
(* Video events *)

initialSplit(id, d) ==
    [id |-> id, start |-> 0, end |-> d, duration |-> d, thumbnail |-> 0,
     locked |-> FALSE, muted |-> FALSE, speed |-> 100, color |-> "#4f46e5"]

(* onLoadedMetadata of the render c *)
onLoadedMetadata(c, d) ==
    IF Len(c.splits) = 0 /\ d > 0
    THEN ("duration" :> d) @@ ("splits" :> <<initialSplit(nextId + 1, d)>>)
         @@ ("nextId" :> nextId + 1) @@ saveToHistory(c)
         @@ ("timer" :> Timer(c, 500))
    ELSE ("duration" :> d)

LoadedMetadata ==
    /\ ~Loaded
    /\ \E d \in Durations :
        Apply("load", TRUE, onLoadedMetadata(Now, d), drag)

(* the effect runs again when splits.length changed, and the video has its *)
(* metadata (readyState >= 1): onLoadedMetadata() of the new render        *)
ReloadEffect ==
    /\ EffectPending
    /\ nextId < MaxIds
    /\ Apply("load", TRUE, onLoadedMetadata(Now, duration), drag)

(* onTrackClick: videoRef.current.currentTime = t; setPlayhead(t) *)
onTrackClick(c, px) ==
    LET snapPoints == FlatStartEnd(c.splits) \o MapSeq(c.markers, LAMBDA m : m.time)
        t == snapTime(pxToTime(px, c.duration), snapPoints, c.snapEnabled)
    IN ("playhead" :> t) @@ Seek(t)

(* a segment's div (1153-1158) covers its pixels and stops the click (1166) *)
Covered(px) ==
    \E i \in 1..Len(splits) :
        /\ timeToPx(splits[i].start, duration) <= px
        /\ px < timeToPx(splits[i].start, duration) + timeToPx(splits[i].duration, duration)

TrackClick ==
    /\ CanStep /\ Idle
    /\ \E px \in ClickPx :
        /\ ~Covered(px)
        /\ Apply("seek", TRUE, onTrackClick(Now, px) @@ ("input" :> px), drag)

onTimeUpdate(t) == ("playhead" :> t)

(* the second timeupdate listener (204-208) *)
checkLoop(t) ==
    IF isLooping /\ loopRegion.set /\ t >= loopRegion.end
    THEN Seek(loopRegion.start)
    ELSE NoUpdate

TimeUpdate ==
    /\ CanStep
    /\ \E t \in PlayheadTimes :
          Apply("timeupdate", TRUE, onTimeUpdate(t) @@ checkLoop(t), drag)

----------------------------------------------------------------------------
(* Split *)

(* a split whose halves keep the duration field of the segment they replace *)
splitAtPlayheadKeepsDuration(c) ==
    LET t == c.playhead
        hit == {i \in 1..Len(c.splits) : t >= c.splits[i].start /\ t < c.splits[i].end}
    IN IF hit = {} THEN NoUpdate
       ELSE LET idx == CHOOSE i \in hit : \A j \in hit : i <= j
                s == c.splits[idx]
            IN IF s.locked THEN NoUpdate
               ELSE IF t - s.start < MIN_PART \/ s.end - t < MIN_PART THEN NoUpdate
               ELSE LET left == [s EXCEPT !.id = nextId + 1, !.end = t, !.thumbnail = 0]
                        right == [s EXCEPT !.id = nextId + 2, !.start = t, !.thumbnail = 0]
                        newSplits == SubSeq(c.splits, 1, idx - 1) \o <<left, right>>
                                     \o SubSeq(c.splits, idx + 1, Len(c.splits))
                    IN ("splits" :> newSplits) @@ ("nextId" :> nextId + 2)
                       @@ saveToHistory(c)

(* a split that does not look at the lock of the segment it cuts *)
splitAtPlayheadIgnoresLock(c) ==
    LET t == c.playhead
        hit == {i \in 1..Len(c.splits) : t >= c.splits[i].start /\ t < c.splits[i].end}
    IN IF hit = {} THEN NoUpdate
       ELSE LET idx == CHOOSE i \in hit : \A j \in hit : i <= j
                s == c.splits[idx]
            IN IF t - s.start < MIN_PART \/ s.end - t < MIN_PART THEN NoUpdate
               ELSE LET left == [s EXCEPT !.id = nextId + 1, !.end = t,
                                          !.duration = t - s.start, !.thumbnail = 0]
                        right == [s EXCEPT !.id = nextId + 2, !.start = t,
                                           !.duration = s.end - t, !.thumbnail = 0]
                        newSplits == SubSeq(c.splits, 1, idx - 1) \o <<left, right>>
                                     \o SubSeq(c.splits, idx + 1, Len(c.splits))
                    IN ("splits" :> newSplits) @@ ("nextId" :> nextId + 2)
                       @@ saveToHistory(c)

splitAtPlayhead(c) ==
    LET t == c.playhead
        hit == {i \in 1..Len(c.splits) : t >= c.splits[i].start /\ t < c.splits[i].end}
    IN IF hit = {} THEN NoUpdate
       ELSE LET idx == CHOOSE i \in hit : \A j \in hit : i <= j
                s == c.splits[idx]
            IN IF s.locked THEN NoUpdate
               ELSE IF t - s.start < MIN_PART \/ s.end - t < MIN_PART THEN NoUpdate
               ELSE LET left == [s EXCEPT !.id = nextId + 1, !.end = t,
                                          !.duration = t - s.start, !.thumbnail = 0]
                        right == [s EXCEPT !.id = nextId + 2, !.start = t,
                                           !.duration = s.end - t, !.thumbnail = 0]
                        newSplits == SubSeq(c.splits, 1, idx - 1) \o <<left, right>>
                                     \o SubSeq(c.splits, idx + 1, Len(c.splits))
                    IN ("splits" :> newSplits) @@ ("nextId" :> nextId + 2)
                       @@ saveToHistory(c) @@ ("timer" :> Timer(c, 200))

(* a handler that set nothing returned at one of its guards *)
Handle(name, u) ==
    /\ Get(u, "nextId", nextId) <= MaxIds
    /\ Apply(name, u # NoUpdate, u, drag)

SplitButton == CanStep /\ Idle /\ Handle("split", splitAtPlayhead(Now))
SplitKey == CanStep /\ Handle("split", splitAtPlayhead(KeyRender))

(* the toolbar buttons are disabled at the bounds of the history (824, 832) *)
UndoButton == CanStep /\ Idle /\ historyIndex > 0 /\ Handle("undo", undo(Now))
UndoKey == CanStep /\ Handle("undo", undo(KeyRender))
RedoButton ==
    CanStep /\ Idle /\ historyIndex < Len(history) - 1 /\ Handle("redo", redo(Now))
RedoKey == CanStep /\ Handle("redo", redo(KeyRender))

----------------------------------------------------------------------------
(* Selection *)

toggleSelectSplit(c, id, multi) ==
    IF multi
    THEN IF id \in c.selectedSplits
         THEN ("selectedSplits" :> c.selectedSplits \ {id})
         ELSE ("selectedSplits" :> c.selectedSplits \cup {id})
    ELSE ("selectedSplits" :> {id})

selectAll(c) == ("selectedSplits" :> Ids(c.splits))

(* The click on a segment (1165-1173), not while isDraggingSplit.  The      *)
(* pointer-down of a click on a segment that is not locked starts a move    *)
(* drag (1160-1164), so that click follows a pointer-up.                    *)
ClickSplit ==
    /\ CanStep /\ Idle
    /\ \E i \in 1..Len(splits), multi \in BOOLEAN :
        /\ splits[i].locked \/ lastOp.name \in {"moveUp", "trimUp", "handleUp"}
        /\ Handle("select", toggleSelectSplit(Now, splits[i].id, multi))

SelectAllButton == CanStep /\ Idle /\ Handle("selectAll", selectAll(Now))
SelectAllKey == CanStep /\ Handle("selectAll", selectAll(KeyRender))

----------------------------------------------------------------------------
(* Delete, copy, paste, duplicate *)

deleteSelected(c) ==
    IF c.selectedSplits = {} THEN NoUpdate
    ELSE LET remaining == SelectSeq(c.splits,
                 LAMBDA s : s.id \notin c.selectedSplits /\ ~s.locked)
         IN IF Len(remaining) = 0 THEN NoUpdate
            ELSE LET sortedSplits == SortByStart(remaining)
                     currentTime == 0
                     rippled == MapSeq(sortedSplits,
                         LAMBDA s : [s EXCEPT !.start = currentTime,
                                              !.end = currentTime + s.duration])
                 IN ("splits" :> IF c.rippleMode THEN rippled ELSE remaining)
                    @@ ("selectedSplits" :> {}) @@ saveToHistory(c)

DeleteName(c, u) ==
    IF u # NoUpdate /\ c.rippleMode THEN "rippleDelete" ELSE "delete"

DeleteButton ==
    /\ CanStep /\ Idle /\ selectedSplits # {}
    /\ Handle(DeleteName(Now, deleteSelected(Now)), deleteSelected(Now))
DeleteKey ==
    /\ CanStep
    /\ Handle(DeleteName(KeyRender, deleteSelected(KeyRender)), deleteSelected(KeyRender))

copySelected(c) ==
    ("clipboard" :> SelectSeq(c.splits, LAMBDA s : s.id \in c.selectedSplits))

CopyButton == CanStep /\ Idle /\ selectedSplits # {} /\ Handle("copy", copySelected(Now))
CopyKey == CanStep /\ Handle("copy", copySelected(KeyRender))

pasteClips(c) ==
    IF Len(c.clipboard) = 0 THEN NoUpdate
    ELSE LET newSplits == [i \in 1..Len(c.clipboard) |->
                 [c.clipboard[i] EXCEPT !.id = nextId + i,
                                        !.start = c.playhead,
                                        !.end = c.playhead + c.clipboard[i].duration,
                                        !.thumbnail = 0]]
         IN ("splits" :> SortByStart(c.splits \o newSplits))
            @@ ("nextId" :> nextId + Len(c.clipboard)) @@ saveToHistory(c)
            @@ ("timer" :> Timer(c, 200))

(* paste has no button: Ctrl+V only *)
PasteKey == CanStep /\ Handle("paste", pasteClips(KeyRender))

MaxEnd(s) == CHOOSE m \in {s[i].end : i \in 1..Len(s)} :
                 \A i \in 1..Len(s) : s[i].end <= m

duplicateSelected(c) ==
    IF c.selectedSplits = {} THEN NoUpdate
    ELSE LET selected == SelectSeq(c.splits, LAMBDA s : s.id \in c.selectedSplits)
             maxEnd == MaxEnd(c.splits)
             duplicated == [i \in 1..Len(selected) |->
                 [selected[i] EXCEPT
                     !.id = nextId + i,
                     !.start = maxEnd + (selected[i].start - selected[1].start),
                     !.end = maxEnd + (selected[i].end - selected[1].start),
                     !.thumbnail = selected[i].thumbnail]]
         IN ("splits" :> SortByStart(c.splits \o duplicated))
            @@ ("nextId" :> nextId + Len(selected)) @@ saveToHistory(c)

DuplicateButton ==
    CanStep /\ Idle /\ selectedSplits # {} /\ Handle("duplicate", duplicateSelected(Now))
DuplicateKey == CanStep /\ Handle("duplicate", duplicateSelected(KeyRender))

----------------------------------------------------------------------------
(* Lock, mute, speed, merge, markers *)

(* a lock toggle that does not look at the selection *)
toggleLockEverySegment(c) ==
    IF c.selectedSplits = {} THEN NoUpdate
    ELSE ("splits" :> MapSeq(c.splits, LAMBDA s : [s EXCEPT !.locked = ~s.locked]))
         @@ saveToHistory(c)

toggleLock(c) ==
    IF c.selectedSplits = {} THEN NoUpdate
    ELSE ("splits" :> MapSeq(c.splits, LAMBDA s :
              IF s.id \in c.selectedSplits THEN [s EXCEPT !.locked = ~s.locked] ELSE s))
         @@ saveToHistory(c)

toggleMute(c) ==
    IF c.selectedSplits = {} THEN NoUpdate
    ELSE ("splits" :> MapSeq(c.splits, LAMBDA s :
              IF s.id \in c.selectedSplits THEN [s EXCEPT !.muted = ~s.muted] ELSE s))
         @@ saveToHistory(c)

changeSpeed(c, speed) ==
    IF c.selectedSplits = {} THEN NoUpdate
    ELSE ("splits" :> MapSeq(c.splits, LAMBDA s :
              IF s.id \in c.selectedSplits THEN [s EXCEPT !.speed = speed] ELSE s))
         @@ saveToHistory(c)

ToggleLockButton ==
    CanStep /\ Idle /\ selectedSplits # {} /\ Handle("toggleLock", toggleLock(Now))
ToggleLockKey == CanStep /\ Handle("toggleLock", toggleLock(KeyRender))
ToggleMuteButton ==
    CanStep /\ Idle /\ selectedSplits # {} /\ Handle("toggleMute", toggleMute(Now))
(* the speed select is rendered while the selection is not empty (905) *)
ChangeSpeedSelect ==
    /\ CanStep /\ Idle /\ selectedSplits # {}
    /\ \E speed \in Speeds : Handle("changeSpeed", changeSpeed(Now, speed))

mergeSelected(c) ==
    IF Cardinality(c.selectedSplits) < 2 THEN NoUpdate
    ELSE LET selected == SortByStart(
                 SelectSeq(c.splits, LAMBDA s : s.id \in c.selectedSplits))
             canMerge == \A i \in 1..(Len(selected) - 1) :
                 Abs(selected[i].end - selected[i + 1].start) <= MERGE_TOLERANCE
         IN IF ~canMerge THEN NoUpdate
            \* selected[0].start of an empty array throws before any setter ran
            ELSE IF Len(selected) = 0 THEN NoUpdate
            ELSE LET merged == [id |-> nextId + 1,
                                start |-> selected[1].start,
                                end |-> selected[Len(selected)].end,
                                duration |-> selected[Len(selected)].end - selected[1].start,
                                thumbnail |-> 0, locked |-> FALSE, muted |-> FALSE,
                                speed |-> 100, color |-> selected[1].color]
                     newSplits == SortByStart(
                         SelectSeq(c.splits, LAMBDA s : s.id \notin c.selectedSplits)
                         \o <<merged>>)
                 IN ("splits" :> newSplits) @@ ("selectedSplits" :> {merged.id})
                    @@ ("nextId" :> nextId + 1) @@ saveToHistory(c)
                    @@ ("timer" :> Timer(c, 200))

MergeButton ==
    /\ CanStep /\ Idle /\ Cardinality(selectedSplits) >= 2
    /\ Handle("merge", mergeSelected(Now))

addMarker(c) ==
    LET newMarker == [id |-> nextId + 1, time |-> c.playhead,
                      label |-> Len(c.markers) + 1]
    IN ("markers" :> Append(c.markers, newMarker)) @@ ("nextId" :> nextId + 1)
       @@ saveToHistory(c)

AddMarkerButton == CanStep /\ Idle /\ Handle("addMarker", addMarker(Now))
AddMarkerKey == CanStep /\ Handle("addMarker", addMarker(KeyRender))

(* the snap and ripple checkboxes (979, 999) *)
ToggleSnap == CanStep /\ Idle /\ Handle("setSnap", ("snapEnabled" :> ~snapEnabled))
ToggleRipple == CanStep /\ Idle /\ Handle("setRipple", ("rippleMode" :> ~rippleMode))

----------------------------------------------------------------------------
(* Drags.  drag.c is the render of the pointer-down, drag.split the segment *)
(* (move, trim) and drag.idx the array index (boundary handle) it was on.   *)

Dragging(kind, i) == [kind |-> kind, c |-> Now, split |-> splits[i], idx |-> i]

DownName(kind) == CASE kind = "move" -> "moveDown"
                    [] kind = "trimStart" -> "trimStartDown"
                    [] kind = "trimEnd" -> "trimEndDown"
                    [] kind = "handle" -> "handleDown"
MoveName(kind) == CASE kind = "move" -> "moveMove"
                    [] kind = "trimStart" -> "trimStartMove"
                    [] kind = "trimEnd" -> "trimEndMove"
                    [] kind = "handle" -> "handleMove"
UpName(kind) == CASE kind = "move" -> "moveUp"
                  [] kind = "trimStart" -> "trimUp"
                  [] kind = "trimEnd" -> "trimUp"
                  [] kind = "handle" -> "handleUp"

(* startDragSplit: the body of a segment that is not locked (1160-1164) *)
PointerDownBody ==
    /\ CanStep /\ Idle
    /\ \E i \in 1..Len(splits) :
        /\ ~splits[i].locked
        /\ Apply("moveDown", TRUE, NoUpdate, Dragging("move", i))

(* the trim handles are rendered on segments that are not locked (1223, 1257) *)
PointerDownTrim ==
    /\ CanStep /\ Idle
    /\ \E i \in 1..Len(splits), kind \in {"trimStart", "trimEnd"} :
        /\ ~splits[i].locked
        /\ Apply(DownName(kind), TRUE, NoUpdate, Dragging(kind, i))

(* the resize handle is rendered on every segment but the last that is not *)
(* locked (1291)                                                           *)
PointerDownHandle ==
    /\ CanStep /\ Idle
    /\ \E i \in 1..(Len(splits) - 1) :
        /\ ~splits[i].locked
        /\ Apply("handleDown", TRUE, NoUpdate, Dragging("handle", i))

dragDt(c, dx) == pxToTime(dx, c.duration) - pxToTime(0, c.duration)

(* startDragSplit.onMove: the setter maps over the current splits *)
moveOnMove(c, split, dx, prev) ==
    LET dt == dragDt(c, dx)
        clamped == Max(0, Min(c.duration - split.duration, split.start + dt))
        otherSplits == SelectSeq(c.splits, LAMBDA s : s.id # split.id)
        snapPoints == FlatStartEnd(otherSplits)
        newStart == snapTime(clamped, snapPoints, c.snapEnabled)
        newEnd == newStart + split.duration
    IN ("splits" :> MapSeq(prev, LAMBDA s :
            IF s.id = split.id THEN [s EXCEPT !.start = newStart, !.end = newEnd]
            ELSE s))

trimSplitStart(c, id, candidate) ==
    LET found == {i \in 1..Len(c.splits) : c.splits[i].id = id}
    IN IF found = {} THEN NoUpdate
       ELSE LET split == c.splits[CHOOSE i \in found : \A j \in found : i <= j]
            IN IF split.locked THEN NoUpdate
               ELSE LET newStart == Max(0, Min(candidate, split.end - MIN_PART))
                    IN ("splits" :> MapSeq(c.splits, LAMBDA s :
                           IF s.id = id
                           THEN [s EXCEPT !.start = newStart,
                                          !.duration = s.end - newStart]
                           ELSE s))

trimSplitEnd(c, id, candidate) ==
    LET found == {i \in 1..Len(c.splits) : c.splits[i].id = id}
    IN IF found = {} THEN NoUpdate
       ELSE LET split == c.splits[CHOOSE i \in found : \A j \in found : i <= j]
            IN IF split.locked THEN NoUpdate
               ELSE LET newEnd == Min(c.duration, Max(candidate, split.start + MIN_PART))
                    IN ("splits" :> MapSeq(c.splits, LAMBDA s :
                           IF s.id = id
                           THEN [s EXCEPT !.end = newEnd,
                                          !.duration = newEnd - s.start]
                           ELSE s))

(* startDragHandle.onMove *)
handleOnMove(c, idx, dx) ==
    LET originalSplits == c.splits
        dt == dragDt(c, dx)
    IN IF idx + 1 > Len(originalSplits) THEN NoUpdate
       ELSE LET left == originalSplits[idx]
                right == originalSplits[idx + 1]
            IN IF left.locked \/ right.locked THEN NoUpdate
               ELSE LET b0 == left.end + dt
                        b1 == Max(b0, left.start + MIN_PART)
                        b2 == Min(b1, right.end - MIN_PART)
                        snapPoints == MapSeq(c.markers, LAMBDA m : m.time)
                        boundary == snapTime(b2, snapPoints, c.snapEnabled)
                        newSplits == [originalSplits EXCEPT
                            ![idx].end = boundary,
                            ![idx].duration = boundary - left.start,
                            ![idx + 1].start = boundary,
                            ![idx + 1].duration = right.end - boundary]
                    IN ("splits" :> newSplits)

onMove(dx) ==
    CASE drag.kind = "move" -> moveOnMove(drag.c, drag.split, dx, splits)
      [] drag.kind = "trimStart" ->
            trimSplitStart(drag.c, drag.split.id, drag.split.start + dragDt(drag.c, dx))
      [] drag.kind = "trimEnd" ->
            trimSplitEnd(drag.c, drag.split.id, drag.split.end + dragDt(drag.c, dx))
      [] drag.kind = "handle" -> handleOnMove(drag.c, drag.idx, dx)

PointerMove ==
    /\ CanStep /\ ~Idle
    /\ \E dx \in DragPx :
        Apply(MoveName(drag.kind), onMove(dx) # NoUpdate,
              onMove(dx) @@ ("input" :> dx), drag)

(* onUp: a move re-sorts the current splits; every drag saves the render of *)
(* its pointer-down to the history; a move (354) and a trim (1244, 1278)    *)
(* start the thumbnail timer, a boundary drag (486-491) does not            *)
onUp ==
    CASE drag.kind = "move" ->
            ("splits" :> SortByStart(splits)) @@ saveToHistory(drag.c)
            @@ ("timer" :> Timer(drag.c, 200))
      [] drag.kind \in {"trimStart", "trimEnd"} ->
            saveToHistory(drag.c) @@ ("timer" :> Timer(drag.c, 200))
      [] OTHER -> saveToHistory(drag.c)

PointerUp ==
    /\ CanStep /\ ~Idle
    /\ Apply(UpName(drag.kind), TRUE, onUp, NoDrag)

(* pointercancel, or the pointer leaving the window, during a drag: the    *)
(* drags listen on window for pointermove and pointerup only (357-358,     *)
(* 493-494, 1246-1247, 1280-1281), so no handler runs                      *)
PointerCancel ==
    /\ CanStep /\ ~Idle
    /\ Apply("pointerCancel", FALSE, NoUpdate, drag)

----------------------------------------------------------------------------

(* the video element before any thumbnail pass or seek, no loop region, and *)
(* useState(splits.length || 3) of the equal-parts timeline (1471)           *)
VideoIdle ==
    /\ timers = <<>>
    /\ onseeked = 0
    /\ seeking = FALSE
    /\ seekTime = 0
    /\ loopRegion = NoLoop
    /\ isLooping = FALSE
    /\ numParts = 3

(* the state of the mounted component, before the video has its metadata *)
Mounted ==
    /\ duration = 0
    /\ playhead = 0
    /\ splits = <<>>
    /\ markers = <<>>
    /\ selectedSplits = {}
    /\ snapEnabled = TRUE
    /\ rippleMode = FALSE
    /\ history = <<>>
    /\ historyIndex = -1
    /\ clipboard = <<>>
    /\ drag = NoDrag
    /\ kbd = [history |-> <<>>, historyIndex |-> -1, clipboard |-> <<>>,
              rippleMode |-> FALSE]
    /\ nextId = 0
    /\ lastOp = Op("mount", TRUE)
    /\ before = [splits |-> <<>>, markers |-> <<>>]
    /\ nsteps = 0
    /\ input = 0
    /\ VideoIdle

(* Spec and EditSpec do not follow the thumbnail timers: a segment's        *)
(* thumbnail stays undefined there, and ThumbSpec follows them.             *)
Init == Mounted /\ call = NoCall /\ thumbs = FALSE

Next ==
    \/ LoadedMetadata
    \/ ReloadEffect
    \/ TimeUpdate
    \/ TrackClick
    \/ SplitButton
    \/ SplitKey
    \/ UndoButton
    \/ UndoKey
    \/ RedoButton
    \/ RedoKey
    \/ ClickSplit
    \/ SelectAllButton
    \/ SelectAllKey
    \/ DeleteButton
    \/ DeleteKey
    \/ CopyButton
    \/ CopyKey
    \/ PasteKey
    \/ DuplicateButton
    \/ DuplicateKey
    \/ ToggleLockButton
    \/ ToggleLockKey
    \/ ToggleMuteButton
    \/ ChangeSpeedSelect
    \/ MergeButton
    \/ AddMarkerButton
    \/ AddMarkerKey
    \/ ToggleSnap
    \/ ToggleRipple
    \/ PointerDownBody
    \/ PointerDownTrim
    \/ PointerDownHandle
    \/ PointerMove
    \/ PointerUp
    \/ PointerCancel

Spec == Init /\ [][Next]_vars

----------------------------------------------------------------------------
(* Editing sessions: the model started in states the editor reaches by the  *)
(* events listed with each, to follow an edit that lies deeper than        *)
(* MaxSteps events after the mount.                                        *)

EditSteps == 4

Seg(id, start, end) ==
    [id |-> id, start |-> start, end |-> end, duration |-> end - start,
     thumbnail |-> 0, locked |-> FALSE, muted |-> FALSE, speed |-> 100,
     color |-> "#4f46e5"]
Mk(id, time, n) == [id |-> id, time |-> time, label |-> n]
HistoryState(s, m) == [splits |-> s, markers |-> m]

(* loadedmetadata; timeupdate 600; Split *)
AfterLoad == <<Seg(1, 0, 1200)>>
AfterSplit == <<Seg(2, 0, 600), Seg(3, 600, 1200)>>
SplitHistory == <<HistoryState(<<>>, <<>>), HistoryState(AfterLoad, <<>>)>>

SessionSplit ==
    [duration |-> 1200, playhead |-> 600, splits |-> AfterSplit, markers |-> <<>>,
     selectedSplits |-> {}, history |-> SplitHistory, historyIndex |-> 1,
     clipboard |-> <<>>,
     kbd |-> [history |-> SplitHistory, historyIndex |-> 1, clipboard |-> <<>>,
              rippleMode |-> FALSE],
     nextId |-> 3, lastOp |-> Op("split", TRUE),
     before |-> HistoryState(AfterLoad, <<>>)]

(* SessionSplit; timeupdate t; Add Marker *)
SessionMarker(t) ==
    LET h == Append(SplitHistory, HistoryState(AfterSplit, <<>>))
    IN [SessionSplit EXCEPT
           !.playhead = t, !.markers = <<Mk(4, t, 1)>>,
           !.history = h, !.historyIndex = 2,
           !.kbd = [history |-> h, historyIndex |-> 2, clipboard |-> <<>>,
                    rippleMode |-> FALSE],
           !.nextId = 4, !.lastOp = Op("addMarker", TRUE),
           !.before = HistoryState(AfterSplit, <<>>)]

(* SessionSplit; pointer-down on the left trim handle of the second segment; *)
(* pointer-move by 50 px; pointer-up.  The keydown listener is the one of    *)
(* the render of the move frame.                                             *)
SessionTrimmed ==
    [SessionSplit EXCEPT
        !.splits = <<Seg(2, 0, 600), Seg(3, 650, 1200)>>,
        !.history = Append(SplitHistory, HistoryState(AfterSplit, <<>>)),
        !.historyIndex = 2,
        !.lastOp = Op("trimUp", TRUE),
        !.before = HistoryState(<<Seg(2, 0, 600), Seg(3, 650, 1200)>>, <<>>)]

(* loadedmetadata; Select All; Copy; timeupdate 600; Ctrl+V *)
SessionPasted ==
    LET h == <<HistoryState(<<>>, <<>>), HistoryState(AfterLoad, <<>>)>>
    IN [duration |-> 1200, playhead |-> 600,
        splits |-> <<Seg(1, 0, 1200), Seg(2, 600, 1800)>>, markers |-> <<>>,
        selectedSplits |-> {1}, history |-> h, historyIndex |-> 1,
        clipboard |-> AfterLoad,
        kbd |-> [history |-> h, historyIndex |-> 1, clipboard |-> AfterLoad,
                 rippleMode |-> FALSE],
        nextId |-> 2, lastOp |-> Op("paste", TRUE),
        before |-> HistoryState(AfterLoad, <<>>)]

(* loadedmetadata; timeupdate 600; pointer-down on the left trim handle of   *)
(* the segment; pointer-move by 50 px; pointer-up; Add Marker                *)
SessionTrimMarked ==
    LET trimmed == <<Seg(1, 50, 1200)>>
        h == <<HistoryState(<<>>, <<>>), HistoryState(AfterLoad, <<>>),
               HistoryState(trimmed, <<>>)>>
    IN [duration |-> 1200, playhead |-> 600, splits |-> trimmed,
        markers |-> <<Mk(2, 600, 1)>>,
        selectedSplits |-> {}, history |-> h, historyIndex |-> 2,
        clipboard |-> <<>>,
        kbd |-> [history |-> h, historyIndex |-> 2, clipboard |-> <<>>,
                 rippleMode |-> FALSE],
        nextId |-> 2, lastOp |-> Op("addMarker", TRUE),
        before |-> HistoryState(trimmed, <<>>)]

Sessions == {SessionSplit, SessionMarker(1150), SessionMarker(270), SessionTrimmed,
             SessionPasted, SessionTrimMarked}

EditInit ==
    /\ snapEnabled = TRUE
    /\ rippleMode = FALSE
    /\ drag = NoDrag
    /\ input = 0
    /\ call = NoCall
    /\ thumbs = FALSE
    /\ VideoIdle
    /\ nsteps = MaxSteps - EditSteps
    /\ \/ /\ duration = 0
          /\ playhead = 0
          /\ splits = <<>>
          /\ markers = <<>>
          /\ selectedSplits = {}
          /\ history = <<>>
          /\ historyIndex = -1
          /\ clipboard = <<>>
          /\ kbd = [history |-> <<>>, historyIndex |-> -1, clipboard |-> <<>>,
                    rippleMode |-> FALSE]
          /\ nextId = 0
          /\ lastOp = Op("mount", TRUE)
          /\ before = [splits |-> <<>>, markers |-> <<>>]
       \/ \E ses \in Sessions :
          /\ duration = ses.duration
          /\ playhead = ses.playhead
          /\ splits = ses.splits
          /\ markers = ses.markers
          /\ selectedSplits = ses.selectedSplits
          /\ history = ses.history
          /\ historyIndex = ses.historyIndex
          /\ clipboard = ses.clipboard
          /\ kbd = ses.kbd
          /\ nextId = ses.nextId
          /\ lastOp = ses.lastOp
          /\ before = ses.before

EditSpec == EditInit /\ [][Next]_vars

----------------------------------------------------------------------------
(* snapTime on its own: the candidate time, the reference times in the      *)
(* order the caller passes them and the snapEnabled of the render are drawn *)
(* from bounded sets.  A pool of marker times in insertion order (468-472)  *)
(* can be any sequence of times.                                            *)

SnapCandidates == {500, 520, 590, 600, 681}
SnapRefs == {560, 600, 1150}
SnapPools == {<<>>} \cup {<<a>> : a \in SnapRefs}
             \cup {<<a, b>> : a \in SnapRefs, b \in SnapRefs}

SnapInit ==
    /\ Mounted
    /\ thumbs = FALSE
    /\ \E t \in SnapCandidates, refs \in SnapPools, e \in BOOLEAN :
          call = [fn |-> "snapTime", time |-> t, otherTimes |-> refs,
                  enabled |-> e, done |-> FALSE, result |-> 0]

SnapCall ==
    /\ call.fn = "snapTime"
    /\ ~call.done
    /\ call' = [call EXCEPT !.done = TRUE,
                            !.result = snapTime(call.time, call.otherTimes, call.enabled)]
    /\ UNCHANGED <<duration, playhead, splits, markers, selectedSplits, snapEnabled,
                   rippleMode, history, historyIndex, clipboard, drag, kbd, nextId,
                   lastOp, before, nsteps, input, thumbs, timers, onseeked, seeking,
                   seekTime, loopRegion, isLooping, numParts>>

SnapNext == SnapCall

SnapSpec == SnapInit /\ [][SnapNext]_vars

----------------------------------------------------------------------------
(* pxToTime on its own: the pixel offset of the pointer in the track and    *)
(* the duration of the render (0 before loadedmetadata, under one second    *)
(* for a short clip) are drawn from bounded sets.                           *)

PxPixels == {100 * k : k \in -6..24}
PxDurations == {0, 500, 1200, 2400}

PxInit ==
    /\ Mounted
    /\ thumbs = FALSE
    /\ \E px \in PxPixels, d \in PxDurations :
          call = [fn |-> "pxToTime", px |-> px, duration |-> d,
                  done |-> FALSE, result |-> 0]

PxCall ==
    /\ call.fn = "pxToTime"
    /\ ~call.done
    /\ call' = [call EXCEPT !.done = TRUE,
                            !.result = pxToTime(call.px, call.duration)]
    /\ UNCHANGED <<duration, playhead, splits, markers, selectedSplits, snapEnabled,
                   rippleMode, history, historyIndex, clipboard, drag, kbd, nextId,
                   lastOp, before, nsteps, input, thumbs, timers, onseeked, seeking,
                   seekTime, loopRegion, isLooping, numParts>>

PxNext == PxCall

PxSpec == PxInit /\ [][PxNext]_vars

----------------------------------------------------------------------------
(* Loop region: the Loop button and its clear button, followed from the     *)
(* mount together with the selection and the edits that change the ids.     *)

(* Math.min() of no arguments; Math.max() of none is -Infinity *)
Infinity == 1000000000

MathMin(ts) ==
    IF Len(ts) = 0 THEN Infinity
    ELSE CHOOSE m \in {ts[i] : i \in 1..Len(ts)} : \A i \in 1..Len(ts) : m <= ts[i]

MathMax(ts) ==
    IF Len(ts) = 0 THEN -Infinity
    ELSE CHOOSE m \in {ts[i] : i \in 1..Len(ts)} : \A i \in 1..Len(ts) : m >= ts[i]

setLoopFromSelected(c) ==
    IF c.selectedSplits = {} THEN NoUpdate
    ELSE LET selected == SelectSeq(c.splits, LAMBDA s : s.id \in c.selectedSplits)
             start == MathMin(MapSeq(selected, LAMBDA s : s.start))
             end == MathMax(MapSeq(selected, LAMBDA s : s.end))
         IN ("loopRegion" :> [set |-> TRUE, start |-> start, end |-> end])
            @@ ("isLooping" :> TRUE)

clearLoop == ("loopRegion" :> NoLoop) @@ ("isLooping" :> FALSE)

(* the Loop button is disabled while nothing is selected (927) *)
SetLoopButton ==
    /\ CanStep /\ Idle /\ selectedSplits # {}
    /\ Handle("setLoop", setLoopFromSelected(Now))

(* the clear button is rendered while isLooping (936) *)
ClearLoopButton == CanStep /\ Idle /\ isLooping /\ Handle("clearLoop", clearLoop)

LoopNext ==
    \/ LoadedMetadata
    \/ ReloadEffect
    \/ TimeUpdate
    \/ SplitButton
    \/ SelectAllButton
    \/ ClickSplit
    \/ PointerDownBody
    \/ PointerUp
    \/ DeleteButton
    \/ MergeButton
    \/ UndoButton
    \/ SetLoopButton
    \/ ClearLoopButton

LoopSpec == Init /\ [][LoopNext]_vars

----------------------------------------------------------------------------
(* The equal-parts timeline (the second component of Timeline.tsx,          *)
(* 1457-1675) over the splits and the duration of SplitProvider.  Its       *)
(* thumbnail timers are not followed.  toFixed(3) rounds to the             *)
(* millisecond, the unit of the model.                                      *)

EQ_MIN_PART == 300

EqMaxParts == 8
EqDragPx == {-900, -100, 100, 900}

(* rect.width of the track container *)
EqWidth == 1200

(* a / b rounded to the nearest integer, for a >= 0 *)
RoundDiv(a, b) == (2 * a + b) \div (2 * b)

RECURSIVE SumDurations(_, _)
SumDurations(s, n) == IF n = 0 THEN 0 ELSE SumDurations(s, n - 1) + s[n].duration

(* SplitProvider.setSplits of a render whose duration is d (0: undefined) *)
setSplits(s, d) ==
    IF Len(s) = 0 THEN <<>>
    ELSE LET normalized == [i \in 1..Len(s) |->
                               [s[i] EXCEPT !.duration = s[i].end - s[i].start]]
             lastIdx == Len(s)
             sumExceptLast == SumDurations(normalized, lastIdx - 1)
         IN IF d = 0 THEN normalized
            ELSE [normalized EXCEPT
                     ![lastIdx].duration = Max(0, d - sumExceptLast),
                     ![lastIdx].end = d]

(* calcEqual, with the ids firstId + 1 .. firstId + parts for uuid() *)
calcEqual(parts, total, firstId) ==
    IF parts = 0 \/ total = 0 THEN <<>>
    ELSE [i \in 1..parts |->
            LET start == RoundDiv((i - 1) * total, parts)
                end == Min(RoundDiv(i * total, parts), total)
            IN [id |-> firstId + i, start |-> start, end |-> end,
                duration |-> end - start]]

(* onLoadedMeta, then the effect on [numParts, duration] of the next render *)
onLoadedMeta(d) ==
    ("duration" :> d)
    @@ ("splits" :> setSplits(calcEqual(numParts, d, nextId + numParts), d))
    @@ ("nextId" :> nextId + 2 * numParts)

EqLoadedMeta ==
    /\ nsteps < MaxSteps /\ ~Loaded
    /\ \E d \in Durations : Apply("eqLoad", TRUE, onLoadedMeta(d), drag)

(* the Parts input (1605-1611), then the effect on [numParts, duration] *)
setNumParts(n) ==
    IF duration = 0 THEN ("numParts" :> Max(1, n))
    ELSE ("numParts" :> Max(1, n))
         @@ ("splits" :> setSplits(calcEqual(Max(1, n), duration, nextId), duration))
         @@ ("nextId" :> nextId + Max(1, n))

EqSetNumParts ==
    /\ nsteps < MaxSteps
    /\ \E n \in 1..EqMaxParts :
          /\ n # numParts
          /\ Apply("eqParts", TRUE, setNumParts(n), drag)

(* startDrag on the handle after part idx (1643-1646) *)
EqPointerDown ==
    /\ nsteps < MaxSteps /\ Idle
    /\ \E idx \in 1..(Len(splits) - 1) :
          Apply("eqDown", TRUE, NoUpdate,
                [kind |-> "equal", idx |-> idx, orig |-> splits, totalW |-> EqWidth,
                 totalT |-> duration, dragging |-> FALSE, time |-> 0])

(* startDrag.onMove (1532-1552) *)
eqOnMove(d, dx) ==
    LET dt == (dx * d.totalT) \div d.totalW
        orig == d.orig
        idx == d.idx
    IN IF idx + 1 > Len(orig) THEN NoUpdate
       ELSE LET left == orig[idx]
                right == orig[idx + 1]
                b0 == left.end + dt
                minLeft == left.start + EQ_MIN_PART
                maxLeft == right.end - EQ_MIN_PART
                b1 == IF b0 < minLeft THEN minLeft ELSE b0
                boundary == IF b1 > maxLeft THEN maxLeft ELSE b1
                copy == [orig EXCEPT
                            ![idx].end = boundary,
                            ![idx].duration = boundary - left.start,
                            ![idx + 1].start = boundary,
                            ![idx + 1].duration = right.end - boundary]
            IN ("splits" :> setSplits(copy, d.totalT)) @@ ("time" :> boundary)

EqPointerMove ==
    /\ nsteps < MaxSteps /\ drag.kind = "equal"
    /\ \E dx \in EqDragPx :
          Apply("eqMove", eqOnMove(drag, dx) # NoUpdate,
                eqOnMove(drag, dx) @@ ("input" :> dx),
                IF eqOnMove(drag, dx) = NoUpdate THEN drag
                ELSE [drag EXCEPT !.dragging = TRUE,
                                  !.time = eqOnMove(drag, dx)["time"]])

(* startDrag.onUp (1554-1562): setDragging(null) *)
EqPointerUp ==
    /\ nsteps < MaxSteps /\ drag.kind = "equal"
    /\ Apply("eqUp", TRUE, NoUpdate, NoDrag)

EqNext ==
    \/ EqLoadedMeta
    \/ EqSetNumParts
    \/ EqPointerDown
    \/ EqPointerMove
    \/ EqPointerUp

EqSpec == Init /\ [][EqNext]_vars

----------------------------------------------------------------------------
(* Thumbnails: the timers the handlers start, the pass and the video's      *)
(* seeked event, followed after loadedmetadata.                             *)

ThumbSteps == 6

(* the data URL of the frame the video shows at time t *)
Frame(t) == t + 1

(* generateThumbnails of the render that started the timer (145-172): every *)
(* segment without a thumbnail sets currentTime and replaces video.onseeked *)
generateThumbnails(t) ==
    IF t.duration = 0 THEN NoUpdate
    ELSE LET todo == SelectSeq(t.splits, LAMBDA s : s.thumbnail = 0)
         IN IF Len(todo) = 0 THEN NoUpdate
            ELSE LET split == todo[Len(todo)]
                 IN Seek(split.start + split.duration \div 2)
                    @@ ("onseeked" :> split.id)

(* a timer is due before the timers started after it, unless one of those   *)
(* has a shorter delay                                                      *)
Due(j) == \A i \in 1..(j - 1) : timers[i].delay > timers[j].delay

TimerFires ==
    /\ CanStep /\ thumbs
    /\ \E j \in 1..Len(timers) :
        /\ Due(j)
        /\ Apply("thumbnailPass", generateThumbnails(timers[j]) # NoUpdate,
                 generateThumbnails(timers[j])
                 @@ ("timers" :> SubSeq(timers, 1, j - 1)
                                 \o SubSeq(timers, j + 1, Len(timers))),
                 drag)

(* a seeked handler that writes the frame to the first segment whatever   *)
(* its id                                                                  *)
onSeekedFirstSegment ==
    IF onseeked = 0 \/ splits = <<>> THEN ("seeking" :> FALSE)
    ELSE ("seeking" :> FALSE)
         @@ ("splits" :> [splits EXCEPT ![1].thumbnail = Frame(seekTime)])

(* video.onseeked (159-170): setSplits((prev) => prev.map(...)) *)
onSeeked ==
    IF onseeked = 0 THEN ("seeking" :> FALSE)
    ELSE ("seeking" :> FALSE)
         @@ ("splits" :> MapSeq(splits, LAMBDA s :
                IF s.id = onseeked THEN [s EXCEPT !.thumbnail = Frame(seekTime)]
                ELSE s))

Seeked ==
    /\ CanStep /\ thumbs /\ seeking
    /\ Apply("seeked", onseeked # 0, onSeeked, drag)

(* the skip buttons (1024, 1040) *)
SkipSeconds == {-5000, 5000}

skip(c, seconds) == Seek(Max(0, Min(c.duration, c.playhead + seconds)))

SkipButton ==
    /\ CanStep /\ Idle
    /\ \E seconds \in SkipSeconds : Apply("skip", TRUE, skip(Now, seconds), drag)

(* loadedmetadata of the mounted component *)
ThumbInit ==
    LET h == <<HistoryState(<<>>, <<>>)>>
    IN /\ duration = 1200
       /\ playhead = 0
       /\ splits = AfterLoad
       /\ markers = <<>>
       /\ selectedSplits = {}
       /\ snapEnabled = TRUE
       /\ rippleMode = FALSE
       /\ history = h
       /\ historyIndex = 0
       /\ clipboard = <<>>
       /\ drag = NoDrag
       /\ kbd = [history |-> h, historyIndex |-> 0, clipboard |-> <<>>,
                 rippleMode |-> FALSE]
       /\ nextId = 1
       /\ lastOp = Op("load", TRUE)
       /\ before = HistoryState(<<>>, <<>>)
       /\ nsteps = MaxSteps - ThumbSteps
       /\ input = 0
       /\ call = NoCall
       /\ thumbs = TRUE
       /\ timers = <<[splits |-> <<>>, duration |-> 0, delay |-> 500]>>
       /\ onseeked = 0
       /\ seeking = FALSE
       /\ seekTime = 0
       /\ loopRegion = NoLoop
       /\ isLooping = FALSE
       /\ numParts = 3

ThumbNext ==
    \/ TimeUpdate
    \/ SkipButton
    \/ SplitButton
    \/ SelectAllButton
    \/ DuplicateButton
    \/ MergeButton
    \/ UndoButton
    \/ PointerDownBody
    \/ PointerMove
    \/ PointerUp
    \/ TimerFires
    \/ Seeked

ThumbSpec == ThumbInit /\ [][ThumbNext]_vars

(* a timer that was started fires and a seek of the loaded video completes *)
ThumbLiveSpec == ThumbSpec /\ WF_vars(TimerFires) /\ WF_vars(Seeked)

----------------------------------------------------------------------------
(* Properties *)

UserCommitNames == CommitNames \ {"load"}
Committed == lastOp.acted /\ lastOp.name \in CommitNames \cup {"undo", "redo"}
Snapshot == [splits |-> splits, markers |-> markers]

Partition(s) ==
    LET t == SortByStart(s)
    IN /\ Len(t) > 0
       /\ t[1].start = 0
       /\ Abs(t[Len(t)].end - duration) <= MERGE_TOLERANCE
       /\ \A i \in 1..(Len(t) - 1) : t[i].end = t[i + 1].start

(* C1: after every committed operation other than a non-ripple delete the  *)
(* segments sorted by start cover [0, duration] without gap or overlap.    *)
C1_PartitionAfterCommit ==
    (Committed /\ lastOp.name # "delete") => Partition(splits)

(* C2: no committed segment is shorter than MIN_PART. *)
C2_MinimumDuration ==
    (Committed /\ Idle) => \A i \in 1..Len(splits) : splits[i].end - splits[i].start >= MIN_PART

(* C3: an undo that directly follows a committed operation restores the    *)
(* segments and markers that were current immediately before it.           *)
C3_UndoStepsBackOne ==
    [][(lastOp.acted /\ lastOp.name \in UserCommitNames /\ lastOp'.name = "undo")
        => Snapshot' = before]_vars

(* C4: undo followed by redo yields the state the undo started from, and   *)
(* undo at history index 0 changes neither segments, markers nor cursor.   *)
C4_UndoRedoRoundTrip ==
    [][/\ (lastOp.acted /\ lastOp.name = "undo" /\ lastOp'.name = "redo")
            => Snapshot' = before
       /\ (lastOp'.name = "undo" /\ historyIndex = 0)
            => UNCHANGED <<splits, markers, historyIndex>>]_vars

(* C5: after every committing operation, undo and redo, the history entry  *)
(* at the cursor is the current (segments, markers).                       *)
C5_SnapshotAtEndOfOperation ==
    (lastOp.acted /\ lastOp.name \in UserCommitNames \cup {"undo", "redo"})
        => /\ historyIndex >= 0
           /\ historyIndex < Len(history)
           /\ history[historyIndex + 1] = Snapshot

(* C6: every commit keeps the entries up to the cursor, drops the ones     *)
(* after it, appends one entry (evicting the oldest above 50 entries) and  *)
(* moves the cursor to the last index; the history never holds more than   *)
(* 50 entries and, once loaded, 0 <= cursor <= length - 1.                 *)
C6_HistoryStructure ==
    /\ [](Len(history) <= HISTORY_CAP)
    /\ [](Loaded => (0 <= historyIndex /\ historyIndex <= Len(history) - 1))
    /\ [][(lastOp'.acted /\ lastOp'.name \in UserCommitNames)
           => LET kept == SubSeq(history, 1, historyIndex + 1)
                  n == Len(history')
              IN /\ n >= 1
                 /\ historyIndex' = n - 1
                 /\ SubSeq(history', 1, n - 1) =
                        IF Len(kept) + 1 > HISTORY_CAP THEN Tail(kept) ELSE kept]_vars

(* C7: deleteSelected removes exactly the selected segments that are not   *)
(* locked; without ripple the others keep their start and end.             *)
C7_DeleteRemovesSelectedUnlocked ==
    [][(lastOp'.acted /\ lastOp'.name \in {"delete", "rippleDelete"})
        => /\ Ids(splits') = {splits[i].id : i \in
                   {j \in 1..Len(splits) :
                        splits[j].locked \/ splits[j].id \notin selectedSplits}}
           /\ lastOp'.name = "delete" =>
                \A i \in 1..Len(splits) : \A j \in 1..Len(splits') :
                    splits'[j].id = splits[i].id =>
                        /\ splits'[j].start = splits[i].start
                        /\ splits'[j].end = splits[i].end]_vars

(* C8: after a ripple delete the remaining segments lie back-to-back from  *)
(* time 0 in the order of their original start, each with its duration.    *)
C8_RippleDeleteRepacks ==
    [][(lastOp'.acted /\ lastOp'.name = "rippleDelete")
        => LET kept == SortByStart(SelectSeq(splits,
                   LAMBDA s : s.id \in Ids(splits')))
           IN /\ Len(splits') = Len(kept)
              /\ splits'[1].start = 0
              /\ \A i \in 1..Len(kept) :
                    /\ splits'[i].id = kept[i].id
                    /\ splits'[i].end - splits'[i].start = kept[i].duration
                    /\ i > 1 => splits'[i].start = splits'[i - 1].end]_vars

(* C9: once initialized, the segment sequence is never empty. *)
C9_NeverEmpty == Loaded => Len(splits) > 0

DragTargets ==
    CASE drag.kind \in {"move", "trimStart", "trimEnd"} -> {drag.split.id}
      [] drag.kind = "handle" ->
            {drag.c.splits[i].id : i \in {drag.idx, drag.idx + 1} \cap 1..Len(drag.c.splits)}
      [] OTHER -> {}

(* C10: a pointer-move or pointer-up of a trim, move or boundary drag on a *)
(* locked segment leaves its start, end and duration unchanged.            *)
C10_LockedImmutableUnderDrag ==
    [][(lastOp'.name \in {"moveMove", "trimStartMove", "trimEndMove", "handleMove",
                          "moveUp", "trimUp", "handleUp"})
        => \A i \in 1..Len(splits) :
              (splits[i].locked /\ splits[i].id \in DragTargets)
              => \E j \in 1..Len(splits') :
                    /\ splits'[j].id = splits[i].id
                    /\ splits'[j].start = splits[i].start
                    /\ splits'[j].end = splits[i].end
                    /\ splits'[j].duration = splits[i].duration]_vars

(* C11: mergeSelected, changeSpeed and toggleMute leave every locked        *)
(* segment in the sequence, with all its fields unchanged.                  *)
C11_LockedExcludedFromBulk ==
    [][(lastOp'.acted /\ lastOp'.name \in {"merge", "changeSpeed", "toggleMute"})
        => \A i \in 1..Len(splits) :
              splits[i].locked => \E j \in 1..Len(splits') : splits'[j] = splits[i]]_vars

Returned == call.fn = "snapTime" /\ call.done
Within(t, refs) == {refs[i] : i \in {j \in 1..Len(refs) : Abs(t - refs[j]) <= SNAP_THRESHOLD}}
Least(S) == CHOOSE m \in S : \A x \in S : m <= x

(* C12: with snapping enabled snapTime returns a reference time exactly     *)
(* when some reference lies within the threshold, inclusive, and the        *)
(* candidate otherwise; with snapping disabled it returns the candidate.    *)
C12_SnapThresholdInclusive ==
    Returned =>
        IF call.enabled /\ Within(call.time, call.otherTimes) # {}
        THEN call.result \in Within(call.time, call.otherTimes)
        ELSE call.result = call.time

(* C13: when several references lie within the threshold, snapTime returns *)
(* the smallest of them.                                                    *)
C13_SnapSmallestWins ==
    (Returned /\ call.enabled /\ Cardinality(Within(call.time, call.otherTimes)) >= 2)
        => call.result = Least(Within(call.time, call.otherTimes))

(* the time a pointer travel of dx pixels stands for, with its sign *)
SignedDelta(dx) == (dx * Max(1000, duration)) \div timelineWidth
Clamp(x, lo, hi) == Min(Max(x, lo), hi)
HandleFrame ==
    /\ lastOp'.name = "handleMove"
    /\ Len(splits') = Len(splits)
    /\ drag.idx + 1 <= Len(splits)
    /\ ~splits[drag.idx].locked
    /\ ~splits[drag.idx + 1].locked

(* C14: on a frame of a boundary drag with snap enabled, when the dragged  *)
(* boundary (the old boundary plus the pointer travel, clamped) is within  *)
(* the threshold of a marker, both segments meet at that marker's time.    *)
C14_BoundaryDragSnapsToMarker ==
    [][(HandleFrame /\ snapEnabled)
        => LET L == splits[drag.idx]
               R == splits[drag.idx + 1]
               candidate == Clamp(L.end + SignedDelta(input'),
                                  L.start + MIN_PART, R.end - MIN_PART)
               near == Within(candidate, MapSeq(markers, LAMBDA m : m.time))
           IN near # {} =>
                /\ splits'[drag.idx].end \in near
                /\ splits'[drag.idx + 1].start = splits'[drag.idx].end]_vars

(* C15: on a frame of a boundary drag between non-locked array neighbours  *)
(* L and R (taken here where L ends at R's start) the boundary b stays in  *)
(* [L.start + MIN_PART, R.end - MIN_PART], L ends and R starts at b, the   *)
(* two durations add up as before, and L.start, R.end and all other        *)
(* segments are unchanged.                                                 *)
C15_MoveBoundaryKeepsCoverage ==
    [][(HandleFrame /\ splits[drag.idx].end = splits[drag.idx + 1].start)
        => LET i == drag.idx
               L == splits[i]
               R == splits[i + 1]
               b == splits'[i].end
           IN /\ L.start + MIN_PART <= b
              /\ b <= R.end - MIN_PART
              /\ splits'[i + 1].start = b
              /\ splits'[i].duration + splits'[i + 1].duration = L.duration + R.duration
              /\ splits'[i].start = L.start
              /\ splits'[i + 1].end = R.end
              /\ \A j \in 1..Len(splits) : j \notin {i, i + 1} => splits'[j] = splits[j]]_vars

(* C16: on a frame of a move drag the moved segment keeps end - start and  *)
(* lies in [0, duration]; every other segment is unchanged.                *)
C16_MoveSegmentStaysInBounds ==
    [][(lastOp'.name = "moveMove" /\ Len(splits') = Len(splits))
        => \A i \in 1..Len(splits) :
              IF splits[i].id = drag.split.id /\ ~splits[i].locked
              THEN /\ splits'[i].end - splits'[i].start = splits[i].end - splits[i].start
                   /\ 0 <= splits'[i].start
                   /\ splits'[i].end <= duration
              ELSE splits[i].id # drag.split.id => splits'[i] = splits[i]]_vars

(* C17: a frame of a trim drag leaves 0 <= start <= end - MIN_PART         *)
(* (trimStart) or start + MIN_PART <= end <= duration (trimEnd) on the     *)
(* trimmed segment, stores end - start as its duration and changes no      *)
(* other segment; on a locked or unknown id nothing changes.  Frames of a  *)
(* drag whose segments are still those of its pointer-down.                *)
C17_TrimClamping ==
    [][(lastOp'.name \in {"trimStartMove", "trimEndMove"} /\ drag.c.splits = splits)
        => /\ Len(splits') = Len(splits)
           /\ \A i \in 1..Len(splits) :
                IF splits[i].id = drag.split.id /\ ~splits[i].locked
                THEN /\ splits'[i].duration = splits'[i].end - splits'[i].start
                     /\ splits'[i].start + MIN_PART <= splits'[i].end
                     /\ lastOp'.name = "trimStartMove" =>
                            /\ 0 <= splits'[i].start
                            /\ splits'[i].end = splits[i].end
                     /\ lastOp'.name = "trimEndMove" =>
                            /\ splits'[i].end <= duration
                            /\ splits'[i].start = splits[i].start
                ELSE splits'[i] = splits[i]]_vars

(* the segment a split is about: the first one in array order that the    *)
(* playhead lies in, start <= t < end (0: none)                            *)
Located ==
    LET hit == {i \in 1..Len(splits) :
                   splits[i].start <= playhead /\ playhead < splits[i].end}
    IN IF hit = {} THEN 0 ELSE CHOOSE i \in hit : \A j \in hit : i <= j

Splittable(S) ==
    /\ ~S.locked
    /\ playhead - S.start >= MIN_PART
    /\ S.end - playhead >= MIN_PART

C19_SplitRejectionIsNoOp ==
    [][(lastOp'.name = "split" /\ (Located = 0 \/ ~Splittable(splits[Located])))
        => /\ UNCHANGED <<splits, markers, history, historyIndex>>
           /\ ~lastOp'.acted]_vars

(* a split was rejected on a locked segment that holds the playhead well   *)
(* inside, after an edit that filled the history                           *)
C19_Witness ==
    /\ lastOp = Op("split", FALSE)
    /\ Located # 0
    /\ splits[Located].locked
    /\ playhead - splits[Located].start >= MIN_PART
    /\ splits[Located].end - playhead >= MIN_PART
    /\ historyIndex >= 1

(* the render after splitAtPlayhead has cut the located segment, with the  *)
(* two halves selected                                                     *)
HalvesSelected ==
    [Now EXCEPT !.splits = splitAtPlayhead(Now)["splits"],
                !.selectedSplits = {nextId + 1, nextId + 2}]

Others(segs, i) == {segs[j] : j \in (1..Len(segs)) \ {i}}

(* C20: with no drag in progress, for a segment S that is not locked and a *)
(* playhead t with MIN_PART to both edges of S, splitting at t and merging *)
(* the two halves at once gives one segment with the start, end and        *)
(* duration of S, and leaves the other segments as they were, as a set.    *)
C20_SplitMergeRoundTrip ==
    (Idle /\ Located # 0 /\ Splittable(splits[Located]))
        => LET S == splits[Located]
               merged == mergeSelected(HalvesSelected)
           IN /\ splitAtPlayhead(Now) # NoUpdate
              /\ merged # NoUpdate
              /\ Len(merged["splits"]) = Len(splits)
              /\ \E k \in 1..Len(splits) :
                    /\ merged["splits"][k].start = S.start
                    /\ merged["splits"][k].end = S.end
                    /\ merged["splits"][k].duration = S.duration
                    /\ Others(merged["splits"], k) = Others(splits, Located)

(* the selected segments, sorted by start, and whether they are pairwise    *)
(* contiguous within the tolerance                                         *)
SelectedSorted ==
    SortByStart(SelectSeq(splits, LAMBDA s : s.id \in selectedSplits))

Contiguous(sel) ==
    \A i \in 1..(Len(sel) - 1) : Abs(sel[i].end - sel[i + 1].start) <= MERGE_TOLERANCE

(* C21: mergeSelected leaves segments and history unchanged when fewer     *)
(* than two segments are selected or the selected ones, sorted by start,   *)
(* are not pairwise contiguous; otherwise it replaces them by one segment  *)
(* with a fresh id spanning [first.start, last.end], duration end - start, *)
(* the first segment's color, speed 1 and no thumbnail, leaves the         *)
(* unselected segments unchanged and selects exactly the merged segment.   *)
C21_MergeSelected ==
    [][lastOp'.name = "merge"
        => LET sel == SelectedSorted
           IN IF Len(sel) < 2 \/ ~Contiguous(sel)
              THEN UNCHANGED <<splits, history, historyIndex>>
              ELSE \E k \in 1..Len(splits') :
                     LET m == splits'[k]
                     IN /\ m.id \notin Ids(splits)
                        /\ m.start = sel[1].start
                        /\ m.end = sel[Len(sel)].end
                        /\ m.duration = m.end - m.start
                        /\ m.color = sel[1].color
                        /\ m.speed = 100
                        /\ m.thumbnail = 0
                        /\ selectedSplits' = {m.id}
                        /\ Len(splits') = Len(splits) - Len(sel) + 1
                        /\ Others(splits', k)
                              = {splits[j] : j \in {i \in 1..Len(splits) :
                                                      splits[i].id \notin selectedSplits}}]_vars

Sorted(segs) == \A i \in 1..(Len(segs) - 1) : segs[i].start <= segs[i + 1].start

(* C22: for a non-empty selection duplicateSelected adds one copy per      *)
(* selected segment, with a fresh id, no thumbnail and the other fields of *)
(* the original; the earliest copy starts at the maximum end of all        *)
(* segments before the call and the copies keep their relative offsets;    *)
(* the originals are unchanged and the result is sorted by start.          *)
C22_DuplicateSelected ==
    [][(lastOp'.name = "duplicate" /\ selectedSplits # {} /\ SelectedSorted # <<>>)
        => LET sel == SelectedSorted
               shift == MaxEnd(splits) - sel[1].start
               new == {k \in 1..Len(splits') : splits'[k].id \notin Ids(splits)}
           IN /\ Len(splits') = Len(splits) + Len(sel)
              /\ Cardinality(new) = Len(sel)
              /\ Cardinality({splits'[k].id : k \in new}) = Len(sel)
              /\ \A i \in 1..Len(sel) : \E k \in new :
                    splits'[k] = [sel[i] EXCEPT !.id = splits'[k].id,
                                               !.start = sel[i].start + shift,
                                               !.end = sel[i].end + shift,
                                               !.thumbnail = 0]
              /\ \A j \in 1..Len(splits) : \E k \in 1..Len(splits') : splits'[k] = splits[j]
              /\ Sorted(splits')]_vars

(* C23: with a non-empty clipboard pasteClips adds one segment per         *)
(* clipboard entry, with a fresh id, no thumbnail and the copied duration, *)
(* placed at or after the maximum end of the sequence, and leaves the      *)
(* existing segments unchanged; with an empty clipboard it changes and     *)
(* commits nothing.                                                        *)
C23_PasteAppendsPastEnd ==
    [][lastOp'.name = "paste"
        => IF clipboard = <<>>
           THEN UNCHANGED <<splits, history, historyIndex>>
           ELSE LET new == {k \in 1..Len(splits') : splits'[k].id \notin Ids(splits)}
                IN /\ Len(splits') = Len(splits) + Len(clipboard)
                   /\ Cardinality({splits'[k].id : k \in new}) = Len(clipboard)
                   /\ \A i \in 1..Len(clipboard) : \E k \in new :
                         /\ splits'[k].duration = clipboard[i].duration
                         /\ splits'[k].thumbnail = 0
                   /\ \A k \in new : splits'[k].start >= MaxEnd(splits)
                   /\ \A j \in 1..Len(splits) :
                         \E k \in 1..Len(splits') : splits'[k] = splits[j]]_vars

(* the operations that commit: one per discrete edit, one per drag release *)
DiscreteCommits == {"split", "delete", "rippleDelete", "merge", "paste", "duplicate",
                    "toggleLock", "toggleMute", "changeSpeed", "addMarker",
                    "moveUp", "trimUp", "handleUp"}
MoveFrames == {"moveMove", "trimStartMove", "trimEndMove", "handleMove"}

(* C24: each completed split, delete, merge, paste, duplicate, lock, mute  *)
(* or speed change, add-marker and drag gesture appends exactly one entry  *)
(* to the history, after the cursor, and moves the cursor onto it; no      *)
(* pointer-move of a drag changes the history or the cursor.               *)
C24_CommitGranularity ==
    [][/\ (lastOp'.acted /\ lastOp'.name \in DiscreteCommits)
            => /\ Len(history') = historyIndex + 2
               /\ SubSeq(history', 1, historyIndex + 1)
                     = SubSeq(history, 1, historyIndex + 1)
               /\ historyIndex' = historyIndex + 1
       /\ lastOp'.name \in MoveFrames => UNCHANGED <<history, historyIndex>>]_vars

BulkNames == {"toggleLock", "toggleMute", "changeSpeed"}

(* C25: toggleLock, toggleMute and changeSpeed change only the locked,     *)
(* muted or speed field of exactly the selected segments: the number and   *)
(* order of the segments and every other field are unchanged, unselected   *)
(* segments are unchanged, and with an empty selection nothing changes and *)
(* nothing is committed.                                                   *)
C25_BulkFlagsNoStructuralEffect ==
    [][lastOp'.name \in BulkNames
        => IF selectedSplits = {}
           THEN UNCHANGED <<splits, markers, history, historyIndex>> /\ ~lastOp'.acted
           ELSE /\ Len(splits') = Len(splits)
                /\ \A i \in 1..Len(splits) :
                      IF splits[i].id \notin selectedSplits
                      THEN splits'[i] = splits[i]
                      ELSE CASE lastOp'.name = "toggleLock" ->
                                  splits'[i] = [splits[i] EXCEPT !.locked = ~splits[i].locked]
                             [] lastOp'.name = "toggleMute" ->
                                  splits'[i] = [splits[i] EXCEPT !.muted = ~splits[i].muted]
                             [] lastOp'.name = "changeSpeed" ->
                                  /\ splits'[i] = [splits[i] EXCEPT !.speed = splits'[i].speed]
                                  /\ splits'[i].speed \in Speeds]_vars

(* a lock toggle has just locked the selected one of two segments and left *)
(* the other as it was                                                     *)
C25_Witness ==
    /\ lastOp = Op("toggleLock", TRUE)
    /\ Len(splits) = 2
    /\ Len(before.splits) = 2
    /\ \E i, j \in 1..2 :
          /\ splits[i].id \in selectedSplits
          /\ splits[i].locked /\ ~before.splits[i].locked
          /\ splits[j].id \notin selectedSplits
          /\ splits[j] = before.splits[j]

(* C26: a drag that is cancelled (pointercancel, or the pointer leaving    *)
(* the window) restores the segment list to the snapshot of the            *)
(* pointer-down, returns the drag to idle and commits nothing.             *)
C26_DragCancellation ==
    [][lastOp'.name = "pointerCancel"
        => /\ splits' = drag.c.splits
           /\ drag' = NoDrag
           /\ UNCHANGED <<history, historyIndex>>]_vars

(* the boundary after the segment at index i has a locked segment on one   *)
(* side                                                                    *)
LockedEdge(segs, i) ==
    /\ i + 1 <= Len(segs)
    /\ segs[i].locked \/ segs[i + 1].locked

(* C27: a pointer-down on the boundary handle between two segments of      *)
(* which one is locked starts no drag, and after the pointer-up the        *)
(* segments, the history and the cursor are those before the pointer-down. *)
C27_LockedEdgesNeverStartDrag ==
    [][/\ (lastOp'.name = "handleDown" /\ drag' # NoDrag)
            => ~LockedEdge(drag'.c.splits, drag'.idx)
       /\ (lastOp'.name = "handleUp" /\ LockedEdge(drag.c.splits, drag.idx))
            => /\ splits' = drag.c.splits
               /\ history' = drag.c.history
               /\ historyIndex' = drag.c.historyIndex]_vars

(* C28: once a segment has a thumbnail, neither a regeneration pass nor a  *)
(* seeked event (of a capture, a track click or a skip) replaces it with   *)
(* another one.                                                            *)
C28_NoRecapture ==
    [][lastOp'.name \in {"thumbnailPass", "seeked"}
        => \A i \in 1..Len(splits), j \in 1..Len(splits') :
              (splits'[j].id = splits[i].id /\ splits[i].thumbnail # 0)
                 => splits'[j].thumbnail = splits[i].thumbnail]_vars

(* C29: a capture result for an id that is no longer in the sequence       *)
(* leaves the sequence unchanged, and a result that is applied changes     *)
(* only the thumbnail of the segments with that id: no id, start, end or   *)
(* duration, and neither the number nor the order of the segments.         *)
C29_StaleCaptureDiscarded ==
    [][lastOp'.name = "seeked"
        => IF \A i \in 1..Len(splits) : splits[i].id # onseeked
           THEN splits' = splits
           ELSE /\ Len(splits') = Len(splits)
                /\ \A i \in 1..Len(splits) :
                      IF splits[i].id = onseeked
                      THEN splits'[i] = [splits[i] EXCEPT !.thumbnail = splits'[i].thumbnail]
                      ELSE splits'[i] = splits[i]]_vars

(* the seeked event of a capture requested for the single segment has      *)
(* arrived after that segment was split in two                             *)
C29_Witness ==
    /\ lastOp = Op("seeked", TRUE)
    /\ Len(splits) = 2
    /\ \A i \in 1..2 : splits[i].id # onseeked /\ splits[i].thumbnail = 0

(* the regeneration timers started by edits (200 ms) that have not fired   *)
EditTimers == SelectSeq(timers, LAMBDA t : t.delay = 200)

(* C30: thumbnail regeneration is debounced: edits that follow each other  *)
(* within the settle window leave at most one regeneration timer pending,  *)
(* so one pass runs after the last of them.                                *)
C30_RegenerationDebounced == Len(EditTimers) <= 1

(* C31: pxToTime lies between 0 and the duration for every pixel offset    *)
(* and every duration: it is 0 when the duration is 0 and does not exceed  *)
(* a duration shorter than one second.                                     *)
C31_PxToTimeRange ==
    (call.fn = "pxToTime" /\ call.done)
        => (0 <= call.result /\ call.result <= call.duration)

(* C32: a loop region that is set has start < end, and looping is active   *)
(* exactly when a loop region is set.                                      *)
C32_LoopRegionWellFormed ==
    /\ isLooping <=> loopRegion.set
    /\ loopRegion.set => loopRegion.start < loopRegion.end

(* the keyboard commands that edit *)
KeyCommands == {"split", "delete", "rippleDelete", "paste", "duplicate",
                "toggleLock", "addMarker", "undo", "redo"}

(* C33: between the pointer-down and the pointer-up of a drag no keyboard  *)
(* command changes the segments, the markers or the history.               *)
C33_ExclusiveOwnershipDuringDrag ==
    [][(~Idle /\ lastOp'.name \in KeyCommands)
        => UNCHANGED <<splits, markers, history, historyIndex>>]_vars

(* the pointer-move events of the drags *)
MoveNames == {"moveMove", "trimStartMove", "trimEndMove", "handleMove"}

(* C34: on every pointer-move of a drag the time delta applied to the      *)
(* origin value is the signed pixel delta since the pointer-down scaled by *)
(* duration / timelineWidth, for leftward deltas as for rightward ones.    *)
C34_DragDeltaSigned ==
    [][lastOp'.name \in MoveNames
        => dragDt(drag.c, input') = (input' * drag.c.duration) \div timelineWidth]_vars

(* the sequence a frame at pixel delta dx publishes when the drag d is     *)
(* applied to the snapshot of its pointer-down and to nothing else         *)
SnapshotFrame(d, dx) ==
    LET u == CASE d.kind = "move" -> moveOnMove(d.c, d.split, dx, d.c.splits)
               [] d.kind = "trimStart" ->
                     trimSplitStart(d.c, d.split.id, d.split.start + dragDt(d.c, dx))
               [] d.kind = "trimEnd" ->
                     trimSplitEnd(d.c, d.split.id, d.split.end + dragDt(d.c, dx))
               [] d.kind = "handle" -> handleOnMove(d.c, d.idx, dx)
    IN Get(u, "splits", d.c.splits)

(* C35: the sequence published after a pointer-move depends only on the    *)
(* snapshot of the pointer-down and the pointer position, whatever frames  *)
(* came before.                                                            *)
C35_FramesSnapshotRelative ==
    [][lastOp'.name \in MoveNames => splits' = SnapshotFrame(drag, input')]_vars

(* C36: after every committed operation the segment array is sorted by     *)
(* non-decreasing start: a move is re-sorted on release, and a trim or a   *)
(* boundary drag leaves no segment before one with a smaller start.        *)
C36_CommittedSequencesOrdered ==
    [][(lastOp'.acted /\ lastOp'.name \in CommitNames) => Sorted(splits')]_vars

(* C37: in every state, the frames of a drag and the states restored by    *)
(* undo and redo included, the stored duration of every segment is its     *)
(* end minus its start.                                                    *)
C37_DurationIsEndMinusStart ==
    \A i \in 1..Len(splits) : splits[i].duration = splits[i].end - splits[i].start

(* C38: every id in the selection is the id of a segment of the current    *)
(* sequence.                                                               *)
C38_SelectionRefersToLiveSegments == selectedSplits \subseteq Ids(splits)

(* the edits that start a regeneration pass over new segments, and the     *)
(* steps of the passes themselves                                          *)
RegenEdits == {"split", "merge", "paste"}
PassSteps == {"thumbnailPass", "seeked"}

AllHaveThumbnails == \A i \in 1..Len(splits) : splits[i].thumbnail # 0

(* C39: after a split, a merge or a paste that no other event follows,     *)
(* every segment of the sequence eventually has a thumbnail (timers fire   *)
(* and seeks complete; the run is followed up to the step bound).          *)
C39_ThumbnailsEventuallyAppear ==
    (lastOp.acted /\ lastOp.name \in RegenEdits)
        ~> \/ AllHaveThumbnails
           \/ lastOp.name \notin RegenEdits \cup PassSteps
           \/ nsteps = MaxSteps

(* C40: in the equal-parts timeline a frame of the boundary drag between   *)
(* parts i and i+1 leaves both with a positive duration and start < end,   *)
(* keeps the start of part i and the end of part i+1, and keeps the sum of *)
(* all durations equal to the total duration.                              *)
C40_EqualSplitBoundaryDrag ==
    [][(lastOp'.name = "eqMove" /\ lastOp'.acted)
        => LET i == drag.idx
               L == splits'[i]
               R == splits'[i + 1]
           IN /\ L.duration > 0 /\ R.duration > 0
              /\ L.start < L.end /\ R.start < R.end
              /\ L.start = drag.orig[i].start
              /\ R.end = drag.orig[i + 1].end
              /\ SumDurations(splits', Len(splits')) = drag.totalT]_vars

====
